---- MODULE Spec2Model ----
(***************************************************************************)
(* PubSubPeerDiscovery (src/src/index.ts): a peer discovery service that   *)
(* announces this node on pubsub topics and turns the announcements of     *)
(* other nodes into 'peer' events.                                         *)
(*                                                                         *)
(* The model holds one engine, the pubsub it is attached to (the list of   *)
(* event listeners and the subscriptions), the timer facility (setInterval *)
(* and setTimeout) and the promises of peerIdFromKeys that are in flight.  *)
(* Every public method and every callback is one action.  What the last    *)
(* call did to the transport is kept in `calls`, whether it raised in      *)
(* `threw`.                                                                *)
(***************************************************************************)
EXTENDS Integers, Sequences, FiniteSets

VARIABLES
    listenOnly,            \* this.listenOnly
    broadcastOnSubscribe,  \* this.broadcastOnSubscribe
    backoffOnSubscribe,    \* this.backoffOnSubscribe
    topics,                \* this.topics, an array of topic names
    pubsub,                \* this.components.pubsub: NULL or "pubsub"
    publicKey,             \* this.components.peerId.publicKey: NULL or bytes
    intervalId,            \* this.intervalId: NULL or a timer handle
    msgListeners,          \* pubsub's listeners of 'message', in order
    subChangeListeners,    \* pubsub's listeners of 'subscription-change'
    subscriptions,         \* the topics pubsub is subscribed to
    intervals,             \* the handles of the active setInterval timers
    timeouts,              \* the delays of the pending setTimeout timers
    pending,               \* the peerIdFromKeys promises in flight
    events,                \* the 'peer' events dispatched so far
    decoded,               \* how many messages _onMessage has given to decode
    failed,                \* which of them decode has rejected
    op,                    \* the last call made
    calls,                 \* the transport calls the last call made
    broadcasts,            \* how often the last call entered _broadcast
    logged,                \* how many errors the last call logged
    threw,                 \* whether the last call raised to its caller
    again                  \* whether the last two calls were both afterStart

config == <<listenOnly, broadcastOnSubscribe, backoffOnSubscribe, topics,
            pubsub, publicKey>>
engine == <<intervalId>>
transport == <<msgListeners, subChangeListeners, subscriptions>>
timers == <<intervals, timeouts>>
pipeline == <<pending, events, decoded, failed>>
observed == <<op, calls, broadcasts, logged, threw, again>>
vars == <<config, engine, transport, timers, pipeline, observed>>

NULL == "null"
\* the value of this.intervalId while no timer is set
NoTimer == 0
\* the value of peerId.publicKey while the key is not known
NoKey == <<>>

-----------------------------------------------------------------------------
(* Bounds *)

\* messages _onMessage gives to decode in one behaviour
MaxMsgs == 2
\* one-shot timers pending at the same time
MaxTimeouts == 2
\* subscription-change listeners registered on pubsub
MaxSubChangeListeners == 2

-----------------------------------------------------------------------------
(* Program constants *)

TOPIC == "_peer-discovery._p2p._pubsub"
DefaultInterval == 10000

\* topic names besides the default one
OtherTopics == <<"ta", "tb">>
AllTopics == {TOPIC} \cup {OtherTopics[i] : i \in 1..Len(OtherTopics)}

Range(s) == {s[i] : i \in 1..Len(s)}

-----------------------------------------------------------------------------
(* Keys, identities and addresses *)

SelfKey == <<7>>       \* the public key of this node
OtherKey == <<8>>      \* the public key of another node
BadKey == <<9, 9>>     \* bytes peerIdFromKeys rejects

Addr1 == <<3>>         \* the bytes of "/addr1"
Addr2 == <<4>>         \* the bytes of "/addr2"

\* the outcome of a call that raised
FAIL == [ok |-> FALSE]

\* peerIdFromKeys: the identity of a public key; the promise rejects on
\* bytes that are no key.
PeerIdFromKeys(pk) ==
    IF Len(pk) = 1 THEN [ok |-> TRUE, digest |-> <<18, pk[1]>>] ELSE FAIL

\* this.components.peerId: the identity of this node, whether or not the
\* object carries the public key
OwnPeerId == PeerIdFromKeys(SelfKey)

\* a comparison of the two objects instead of their digests: a resolved
\* identity is never the object of this.components.peerId
PeerIdSameObject(a, b) == FALSE

\* peerId.equals
PeerIdEquals(a, b) == a.digest = b.digest

\* multiaddr(bytes): parses the bytes of an address, throws on others
Multiaddr(b) ==
    IF b = Addr1 THEN [ok |-> TRUE, str |-> "/addr1"]
    ELSE IF b = Addr2 THEN [ok |-> TRUE, str |-> "/addr2"]
    ELSE FAIL

\* ma.bytes
MultiaddrBytes(ma) == IF ma = "/addr1" THEN Addr1 ELSE Addr2

\* this.components.addressManager.getAddresses()
GetAddresses == <<"/addr1", "/addr2">>

-----------------------------------------------------------------------------
(* The announcement codec (peer.js): field 1 is the public key, field 2 an *)
(* address, each written as tag, length, bytes.                            *)

RECURSIVE EncodeAddrs(_)
EncodeAddrs(addrs) ==
    IF addrs = <<>> THEN <<>>
    ELSE <<2, Len(Head(addrs))>> \o Head(addrs) \o EncodeAddrs(Tail(addrs))

Encode(peer) ==
    <<1, Len(peer.publicKey)>> \o peer.publicKey \o EncodeAddrs(peer.addrs)

RECURSIVE DecodeFields(_, _)
DecodeFields(bytes, acc) ==
    IF bytes = <<>> THEN acc
    ELSE IF Len(bytes) < 2 THEN FAIL
    ELSE IF Len(bytes) < 2 + bytes[2] THEN FAIL
    ELSE LET tag == bytes[1]
             len == bytes[2]
             val == SubSeq(bytes, 3, 2 + len)
             rest == SubSeq(bytes, 3 + len, Len(bytes))
         IN IF tag = 1
            THEN DecodeFields(rest, [acc EXCEPT !.hasKey = TRUE, !.publicKey = val])
            ELSE IF tag = 2
            THEN DecodeFields(rest, [acc EXCEPT !.addrs = Append(@, val)])
            ELSE DecodeFields(rest, acc)

\* PBPeer.decode: throws (FAIL) on truncated bytes and on bytes without
\* the required public key
Decode(bytes) ==
    LET peer == DecodeFields(bytes, [ok |-> TRUE, hasKey |-> FALSE,
                                     publicKey |-> <<>>, addrs |-> <<>>])
    IN IF ~peer.ok THEN FAIL
       ELSE IF ~peer.hasKey THEN FAIL
       ELSE [ok |-> TRUE, publicKey |-> peer.publicKey, addrs |-> peer.addrs]

-----------------------------------------------------------------------------
(* Construction *)

\* the options a constructor is given; an option left out is no field
InitOptions ==
    {[listenOnly |-> l, broadcastOnSubscribe |-> b] :
        l \in BOOLEAN, b \in BOOLEAN}
    \cup {[listenOnly |-> l, broadcastOnSubscribe |-> b, topics |-> OtherTopics,
           backoffOnSubscribe |-> 0] : l \in BOOLEAN, b \in BOOLEAN}

\* the components a constructor is given
Components ==
    [pubsub : {NULL, "pubsub"}, publicKey : {NoKey, SelfKey}]

Option(init, name, default) ==
    IF name \in DOMAIN init THEN init[name] ELSE default

\* constructor (components, init)
Constructor(components, init) ==
    LET interval == Option(init, "interval", DefaultInterval)
    IN /\ listenOnly = Option(init, "listenOnly", FALSE)
       /\ broadcastOnSubscribe = Option(init, "broadcastOnSubscribe", FALSE)
       /\ backoffOnSubscribe = Option(init, "backoffOnSubscribe", interval \div 10)
       /\ topics = (IF Len(Option(init, "topics", <<>>)) > 0
                    THEN init.topics ELSE <<TOPIC>>)
       /\ pubsub = components.pubsub
       /\ publicKey = components.publicKey
       /\ intervalId = NoTimer

Init ==
    /\ \E components \in Components, init \in InitOptions :
          Constructor(components, init)
    /\ msgListeners = <<>>
    /\ subChangeListeners = <<>>
    /\ subscriptions = {}
    /\ intervals = {}
    /\ timeouts = <<>>
    /\ pending = <<>>
    /\ events = <<>>
    /\ decoded = 0
    /\ failed = {}
    /\ op = "new"
    /\ calls = <<>>
    /\ broadcasts = 0
    /\ logged = 0
    /\ threw = FALSE
    /\ again = FALSE

-----------------------------------------------------------------------------
(* The pubsub the engine is attached to *)

Call(name, arg, data) == [call |-> name, arg |-> arg, data |-> data]

\* a list of listeners that takes the same callback twice
AddEventListenerAgain(list, callback) == Append(list, callback)

\* EventTarget.addEventListener: a callback already in the list of the
\* event type is not added again
AddEventListener(list, callback) ==
    IF callback \in Range(list) THEN list ELSE Append(list, callback)

\* EventTarget.removeEventListener
RemoveEventListener(list, callback) ==
    SelectSeq(list, LAMBDA c : c # callback)

\* a test that every topic passes
IncludesAny(list, x) == TRUE

\* Array.prototype.includes
Includes(list, x) == x \in Range(list)

\* the bound method this._onMessage, one function for the engine's life
OnMessageCallback == "_onMessage"

\* setInterval: a handle no active timer has
SetInterval ==
    CHOOSE h \in 1..(Cardinality(intervals) + 1) : h \notin intervals

-----------------------------------------------------------------------------
(* The engine *)

\* isStarted ()
IsStarted == intervalId # NoTimer

\* afterStart without the return of a listen-only engine
DontBroadcastNever == FALSE

\* afterStart returns before it broadcasts when the engine only listens
DontBroadcast == listenOnly

\* the loop of afterStart over this.topics
RECURSIVE SubscribeLoop(_, _)
SubscribeLoop(ts, t) ==
    IF ts = <<>> THEN t
    ELSE SubscribeLoop(Tail(ts),
            [subscriptions |-> t.subscriptions \cup {Head(ts)},
             msgListeners |-> AddEventListener(t.msgListeners, OnMessageCallback),
             calls |-> t.calls \o <<Call("subscribe", Head(ts), <<>>),
                                    Call("addEventListener", "message", <<>>)>>])

\* a loop over this.topics that unsubscribes and leaves the listener
RECURSIVE UnsubscribeOnly(_, _)
UnsubscribeOnly(ts, t) ==
    IF ts = <<>> THEN t
    ELSE UnsubscribeOnly(Tail(ts),
            [subscriptions |-> t.subscriptions \ {Head(ts)},
             msgListeners |-> t.msgListeners,
             calls |-> t.calls \o <<Call("unsubscribe", Head(ts), <<>>)>>])

\* the loop of beforeStop over this.topics
RECURSIVE UnsubscribeLoop(_, _)
UnsubscribeLoop(ts, t) ==
    IF ts = <<>> THEN t
    ELSE UnsubscribeLoop(Tail(ts),
            [subscriptions |-> t.subscriptions \ {Head(ts)},
             msgListeners |-> RemoveEventListener(t.msgListeners, OnMessageCallback),
             calls |-> t.calls \o <<Call("unsubscribe", Head(ts), <<>>),
                                    Call("removeEventListener", "message", <<>>)>>])

\* the loop of _broadcast over this.topics
RECURSIVE PublishLoop(_, _)
PublishLoop(ts, data) ==
    IF ts = <<>> THEN <<>>
    ELSE <<Call("publish", Head(ts), data)>> \o PublishLoop(Tail(ts), data)

\* the peer _broadcast encodes
OwnPeer ==
    [publicKey |-> publicKey,
     addrs |-> [i \in 1..Len(GetAddresses) |-> MultiaddrBytes(GetAddresses[i])]]

\* _broadcast () that does not look at the public key
BroadcastAnyKey ==
    IF pubsub = NULL THEN [threw |-> TRUE, calls |-> <<>>]
    ELSE [threw |-> FALSE, calls |-> PublishLoop(topics, Encode(OwnPeer))]

\* _broadcast (): what it calls on the transport and whether it raises
Broadcast ==
    IF publicKey = NoKey THEN [threw |-> TRUE, calls |-> <<>>]
    ELSE IF pubsub = NULL THEN [threw |-> TRUE, calls |-> <<>>]
    ELSE [threw |-> FALSE, calls |-> PublishLoop(topics, Encode(OwnPeer))]

\* afterStart ()
AfterStart ==
    /\ (intervalId = NoTimer /\ pubsub # NULL /\ ~DontBroadcast /\ broadcastOnSubscribe)
          => Len(subChangeListeners) < MaxSubChangeListeners
    /\ op' = "afterStart"
    /\ again' = (op = "afterStart")
    /\ logged' = 0
    /\ UNCHANGED <<config, pipeline, timeouts>>
    /\ IF intervalId # NoTimer
       THEN /\ calls' = <<>>
            /\ broadcasts' = 0
            /\ threw' = FALSE
            /\ UNCHANGED <<engine, transport, intervals>>
       ELSE IF pubsub = NULL
       THEN /\ calls' = <<>>
            /\ broadcasts' = 0
            /\ threw' = TRUE
            /\ UNCHANGED <<engine, transport, intervals>>
       ELSE LET sub == SubscribeLoop(topics,
                          [subscriptions |-> subscriptions,
                           msgListeners |-> msgListeners, calls |-> <<>>])
            IN /\ subscriptions' = sub.subscriptions
               /\ msgListeners' = sub.msgListeners
               /\ IF DontBroadcast
                  THEN /\ calls' = sub.calls
                       /\ broadcasts' = 0
                       /\ threw' = FALSE
                       /\ UNCHANGED <<engine, subChangeListeners, intervals>>
                  ELSE LET b == Broadcast
                           h == SetInterval
                       IN /\ subChangeListeners' =
                                IF broadcastOnSubscribe
                                THEN Append(subChangeListeners,
                                            Len(subChangeListeners) + 1)
                                ELSE subChangeListeners
                          /\ calls' = sub.calls
                                \o (IF broadcastOnSubscribe
                                    THEN <<Call("addEventListener",
                                                "subscription-change", <<>>)>>
                                    ELSE <<>>)
                                \o b.calls
                          /\ broadcasts' = 1
                          /\ threw' = b.threw
                          /\ IF b.threw
                             THEN UNCHANGED <<intervalId, intervals>>
                             ELSE /\ intervalId' = h
                                  /\ intervals' = intervals \cup {h}

\* beforeStop () that returns when no pubsub is attached
BeforeStopUnconfigured ==
    /\ op' = "beforeStop"
    /\ again' = FALSE
    /\ logged' = 0
    /\ broadcasts' = 0
    /\ threw' = FALSE
    /\ UNCHANGED <<config, engine, pipeline, timers, subChangeListeners>>
    /\ LET unsub == IF pubsub = NULL
                    THEN [subscriptions |-> subscriptions,
                          msgListeners |-> msgListeners, calls |-> <<>>]
                    ELSE UnsubscribeLoop(topics,
                            [subscriptions |-> subscriptions,
                             msgListeners |-> msgListeners, calls |-> <<>>])
       IN /\ subscriptions' = unsub.subscriptions
          /\ msgListeners' = unsub.msgListeners
          /\ calls' = unsub.calls

\* beforeStop ()
BeforeStop ==
    /\ op' = "beforeStop"
    /\ again' = FALSE
    /\ logged' = 0
    /\ broadcasts' = 0
    /\ UNCHANGED <<config, engine, pipeline, timers, subChangeListeners>>
    /\ IF pubsub = NULL
       THEN /\ calls' = <<>>
            /\ threw' = TRUE
            /\ UNCHANGED <<msgListeners, subscriptions>>
       ELSE LET unsub == UnsubscribeLoop(topics,
                            [subscriptions |-> subscriptions,
                             msgListeners |-> msgListeners, calls |-> <<>>])
            IN /\ subscriptions' = unsub.subscriptions
               /\ msgListeners' = unsub.msgListeners
               /\ calls' = unsub.calls
               /\ threw' = FALSE

\* stop () that forgets the handle without clearInterval
StopForgetsTimer ==
    /\ op' = "stop"
    /\ again' = FALSE
    /\ logged' = 0
    /\ broadcasts' = 0
    /\ calls' = <<>>
    /\ threw' = FALSE
    /\ intervalId' = NoTimer
    /\ UNCHANGED <<config, transport, pipeline, timers>>

\* stop () that clears the one-shot timers as well
StopClearsTimeouts ==
    /\ op' = "stop"
    /\ again' = FALSE
    /\ logged' = 0
    /\ broadcasts' = 0
    /\ calls' = <<>>
    /\ threw' = FALSE
    /\ timeouts' = <<>>
    /\ UNCHANGED <<config, transport, pipeline>>
    /\ IF intervalId # NoTimer
       THEN /\ intervals' = intervals \ {intervalId}
            /\ intervalId' = NoTimer
       ELSE UNCHANGED <<intervalId, intervals>>

\* stop ()
Stop ==
    /\ op' = "stop"
    /\ again' = FALSE
    /\ logged' = 0
    /\ broadcasts' = 0
    /\ calls' = <<>>
    /\ threw' = FALSE
    /\ UNCHANGED <<config, transport, pipeline, timeouts>>
    /\ IF intervalId # NoTimer
       THEN /\ intervals' = intervals \ {intervalId}
            /\ intervalId' = NoTimer
       ELSE UNCHANGED <<intervalId, intervals>>

-----------------------------------------------------------------------------
(* Timers *)

\* the callback of setInterval: one _broadcast per tick of an active timer
IntervalTick(h) ==
    /\ h \in intervals
    /\ LET b == Broadcast
       IN /\ calls' = b.calls
          /\ threw' = b.threw
    /\ op' = "interval"
    /\ again' = FALSE
    /\ logged' = 0
    /\ broadcasts' = 1
    /\ UNCHANGED <<config, engine, transport, timers, pipeline>>

\* Math.random() returns k / RandomSteps for a k of RandomValues
RandomValues == {0, 1}
RandomSteps == Cardinality(RandomValues)

\* this.backoffOnSubscribe * Math.random(), in units of 1 / RandomSteps ms,
\* where Math.random() is k / RandomSteps
Backoff(k) == backoffOnSubscribe * k

\* setTimeout: the timer joins the pending ones, which the timer facility
\* keeps by delay
RECURSIVE SetTimeout(_, _)
SetTimeout(list, delay) ==
    IF list = <<>> THEN <<delay>>
    ELSE IF delay <= Head(list) THEN <<delay>> \o list
    ELSE <<Head(list)>> \o SetTimeout(Tail(list), delay)

RECURSIVE SetTimeouts(_, _)
SetTimeouts(list, delays) ==
    IF delays = <<>> THEN list
    ELSE SetTimeouts(SetTimeout(list, Head(delays)), Tail(delays))

\* the listener of 'subscription-change' afterStart registers: the timers
\* it sets when Math.random() is k / RandomSteps
DiscoverySubs(subs) == {t \in subs : Includes(topics, t)}

SubChangeHandler(subs, k) ==
    IF Cardinality(DiscoverySubs(subs)) > 0 THEN <<Backoff(k)>> ELSE <<>>

RECURSIVE Flatten(_)
Flatten(ss) == IF ss = <<>> THEN <<>> ELSE Head(ss) \o Flatten(Tail(ss))

\* the sets of topics a 'subscription-change' event names
SubscriptionChanges ==
    {{}, {TOPIC}, {OtherTopics[1]}, {TOPIC, OtherTopics[1]}}

\* the values of Math.random() the listeners draw; a listener that finds
\* no discovery topic draws none
RandomDraws(subs) ==
    IF DiscoverySubs(subs) = {}
    THEN {[i \in 1..Len(subChangeListeners) |-> 0]}
    ELSE [1..Len(subChangeListeners) -> RandomValues]

\* pubsub dispatches 'subscription-change' with the topics of `subs` to
\* every listener registered
SubscriptionChange(subs) ==
    /\ pubsub # NULL
    /\ \E ks \in RandomDraws(subs) :
          LET set == Flatten([i \in 1..Len(subChangeListeners) |->
                                 SubChangeHandler(subs, ks[i])])
          IN /\ Len(timeouts) + Len(set) <= MaxTimeouts
             /\ timeouts' = SetTimeouts(timeouts, set)
    /\ op' = "subscription-change"
    /\ again' = FALSE
    /\ logged' = 0
    /\ broadcasts' = 0
    /\ calls' = <<>>
    /\ threw' = FALSE
    /\ UNCHANGED <<config, engine, transport, intervals, pipeline>>

\* the callback of setTimeout: one _broadcast, whatever the engine's state
TimeoutFire(i) ==
    /\ i \in 1..Len(timeouts)
    /\ timeouts' = [j \in 1..(Len(timeouts) - 1) |->
                       IF j < i THEN timeouts[j] ELSE timeouts[j + 1]]
    /\ LET b == Broadcast
       IN /\ calls' = b.calls
          /\ threw' = b.threw
    /\ op' = "timeout"
    /\ again' = FALSE
    /\ logged' = 0
    /\ broadcasts' = 1
    /\ UNCHANGED <<config, engine, transport, intervals, pipeline>>

-----------------------------------------------------------------------------
(* The ingestion of messages *)

\* the topics of the messages pubsub delivers
MessageTopics == {TOPIC, OtherTopics[1]}

\* the payloads pubsub delivers
Payloads ==
    {Encode([publicKey |-> SelfKey, addrs |-> <<Addr1, Addr2>>]),  \* our own
     Encode([publicKey |-> OtherKey, addrs |-> <<Addr1, Addr2>>]),
     Encode([publicKey |-> BadKey, addrs |-> <<Addr1>>]),
     <<2, 1, 3>>,       \* an address and no public key
     <<1, 4, 8>>}       \* a public key cut short

\* _onMessage (event) that takes what could not be decoded for an empty peer
OnMessageDefaults(message) ==
    IF intervalId = NoTimer THEN [threw |-> FALSE, decoded |-> 0, started |-> <<>>]
    ELSE IF message.topic \notin Range(topics)
    THEN [threw |-> FALSE, decoded |-> 0, started |-> <<>>]
    ELSE LET peer == Decode(message.data)
         IN [threw |-> FALSE, decoded |-> 1,
             started |-> <<[publicKey |-> IF peer.ok THEN peer.publicKey ELSE <<>>,
                            addrs |-> IF peer.ok THEN peer.addrs ELSE <<>>,
                            msg |-> message.seqno]>>]

\* _onMessage (event) without the test of isStarted
OnMessageWhenever(message) ==
    IF message.topic \notin Range(topics)
    THEN [threw |-> FALSE, decoded |-> 0, started |-> <<>>]
    ELSE LET peer == Decode(message.data)
         IN IF ~peer.ok THEN [threw |-> TRUE, decoded |-> 1, started |-> <<>>]
            ELSE [threw |-> FALSE, decoded |-> 1,
                  started |-> <<[publicKey |-> peer.publicKey,
                                 addrs |-> peer.addrs,
                                 msg |-> message.seqno]>>]

\* _onMessage (event), up to the call of peerIdFromKeys: whether it raises
\* and the promises it starts
OnMessage(message) ==
    IF ~IsStarted THEN [threw |-> FALSE, decoded |-> 0, started |-> <<>>]
    ELSE IF ~Includes(topics, message.topic)
    THEN [threw |-> FALSE, decoded |-> 0, started |-> <<>>]
    ELSE LET peer == Decode(message.data)
         IN IF ~peer.ok THEN [threw |-> TRUE, decoded |-> 1, started |-> <<>>]
            ELSE [threw |-> FALSE, decoded |-> 1,
                  started |-> <<[publicKey |-> peer.publicKey,
                                 addrs |-> peer.addrs,
                                 msg |-> message.seqno]>>]

\* pubsub dispatches 'message' to every listener registered
DeliverMessage(topic, data) ==
    /\ pubsub # NULL
    /\ Len(msgListeners) > 0
    /\ decoded < MaxMsgs
    /\ LET r == OnMessage([topic |-> topic, data |-> data,
                           seqno |-> decoded + 1])
       IN /\ pending' = pending \o
                 Flatten([i \in 1..Len(msgListeners) |-> r.started])
          /\ decoded' = decoded + r.decoded
          /\ failed' = (IF r.threw THEN failed \cup {decoded + 1} ELSE failed)
          /\ threw' = r.threw
    /\ op' = "message"
    /\ again' = FALSE
    /\ logged' = 0
    /\ broadcasts' = 0
    /\ calls' = <<>>
    /\ UNCHANGED <<config, engine, transport, timers, events>>

\* multiaddrs: peer.addrs.map(b => multiaddr(b)); raises when one does
RECURSIVE Multiaddrs(_)
Multiaddrs(addrs) ==
    IF addrs = <<>> THEN [ok |-> TRUE, list |-> <<>>]
    ELSE LET ma == Multiaddr(Head(addrs))
             rest == Multiaddrs(Tail(addrs))
         IN IF ma.ok /\ rest.ok
            THEN [ok |-> TRUE, list |-> <<ma.str>> \o rest.list]
            ELSE FAIL

\* the then and catch callbacks of peerIdFromKeys(peer.publicKey): the
\* events dispatched and the errors logged
OnPeerId(p) ==
    LET peerId == PeerIdFromKeys(p.publicKey)
    IN IF ~peerId.ok THEN [events |-> <<>>, logged |-> 1]
       ELSE IF PeerIdEquals(peerId, OwnPeerId) THEN [events |-> <<>>, logged |-> 0]
       ELSE LET mas == Multiaddrs(p.addrs)
            IN IF ~mas.ok THEN [events |-> <<>>, logged |-> 1]
               ELSE [events |-> <<[id |-> peerId, multiaddrs |-> mas.list,
                                   protocols |-> <<>>, msg |-> p.msg]>>,
                     logged |-> 0]

\* this.dispatchEvent: the event joins the ones dispatched, which the
\* model keeps by the number of their message
RECURSIVE DispatchEvent(_, _)
DispatchEvent(list, event) ==
    IF list = <<>> THEN <<event>>
    ELSE IF event.msg < Head(list).msg THEN <<event>> \o list
    ELSE <<Head(list)>> \o DispatchEvent(Tail(list), event)

\* a promise of peerIdFromKeys settles and its callbacks run only while
\* the engine is started
ResolveWhileStarted(i) ==
    /\ i \in 1..Len(pending)
    /\ pending' = [j \in 1..(Len(pending) - 1) |->
                      IF j < i THEN pending[j] ELSE pending[j + 1]]
    /\ LET r == IF IsStarted THEN OnPeerId(pending[i])
                ELSE [events |-> <<>>, logged |-> 0]
       IN /\ events' = (IF r.events = <<>> THEN events
                         ELSE DispatchEvent(events, r.events[1]))
          /\ logged' = r.logged
    /\ op' = "resolve"
    /\ again' = FALSE
    /\ broadcasts' = 0
    /\ calls' = <<>>
    /\ threw' = FALSE
    /\ UNCHANGED <<config, engine, transport, timers, decoded, failed>>

\* a promise of peerIdFromKeys settles and its callbacks run
Resolve(i) ==
    /\ i \in 1..Len(pending)
    /\ pending' = [j \in 1..(Len(pending) - 1) |->
                      IF j < i THEN pending[j] ELSE pending[j + 1]]
    /\ LET r == OnPeerId(pending[i])
       IN /\ events' = (IF r.events = <<>> THEN events
                         ELSE DispatchEvent(events, r.events[1]))
          /\ logged' = r.logged
    /\ op' = "resolve"
    /\ again' = FALSE
    /\ broadcasts' = 0
    /\ calls' = <<>>
    /\ threw' = FALSE
    /\ UNCHANGED <<config, engine, transport, timers, decoded, failed>>

-----------------------------------------------------------------------------

Next ==
    \/ AfterStart
    \/ BeforeStop
    \/ Stop
    \/ \E h \in intervals : IntervalTick(h)
    \/ \E subs \in SubscriptionChanges : SubscriptionChange(subs)
    \/ \E i \in 1..Len(timeouts) : TimeoutFire(i)
    \/ \E topic \in MessageTopics, data \in Payloads : DeliverMessage(topic, data)
    \/ \E i \in 1..Len(pending) : Resolve(i)

Spec == Init /\ [][Next]_vars

\* every promise of peerIdFromKeys settles
FairSpec == Spec /\ WF_vars(\E i \in 1..Len(pending) : Resolve(i))

-----------------------------------------------------------------------------
(* Properties *)

\* the engine's view of the transport and of its timers
lifecycle == <<intervalId, msgListeners, subChangeListeners, subscriptions,
               intervals, timeouts>>

\* the calls of `list` that are publish calls
PublishCalls(list) == SelectSeq(list, LAMBDA c : c.call = "publish")

\* a message on a configured topic that carries the announcement of
\* another peer: it decodes, its key is one and its addresses are some
ValidFromOther(topic, data) ==
    /\ topic \in Range(topics)
    /\ Decode(data).ok
    /\ PeerIdFromKeys(Decode(data).publicKey).ok
    /\ PeerIdFromKeys(Decode(data).publicKey).digest # OwnPeerId.digest
    /\ Multiaddrs(Decode(data).addrs).ok

\* Idle: never started, or stopped
Idle ==
    /\ intervalId = NoTimer
    /\ msgListeners = <<>>
    /\ subscriptions = {}
    /\ intervals = {}

\* C1: a second afterStart right after one that returned calls nothing on
\* the transport, broadcasts nothing and registers no timer and no handler.
C1_StartIdempotent ==
    [][(op = "afterStart" /\ ~threw /\ op' = "afterStart" /\ again')
          => /\ calls' = <<>>
             /\ broadcasts' = 0
             /\ UNCHANGED lifecycle]_vars

\* C2: beforeStop and stop on an Idle engine call nothing on the transport
\* and leave the engine as it is.
C2_StopIdempotent ==
    [][(Idle /\ op' \in {"beforeStop", "stop"} /\ ~threw')
          => /\ calls' = <<>>
             /\ UNCHANGED lifecycle]_vars

\* C3: with listenOnly, once afterStart has registered the handler, every
\* valid announcement of another peer on a configured topic that is
\* delivered to it is passed on to identity resolution, from which its
\* 'peer' event comes.
C3_ListenOnlyIngests ==
    [][(listenOnly /\ op' = "message") =>
          \A topic \in MessageTopics, data \in Payloads :
             (Includes(msgListeners, OnMessageCallback)
                /\ ValidFromOther(topic, data) /\ DeliverMessage(topic, data))
             => Len(pending') = Len(pending) + 1]_vars

C5_SelfFilter ==
    \A i \in 1..Len(events) : events[i].id.digest # OwnPeerId.digest

\* our own announcement came back on a configured topic while started, its
\* identity was resolved without an error, and no event was dispatched
C5_Witness ==
    /\ IsStarted
    /\ decoded = 1
    /\ failed = {}
    /\ pending = <<>>
    /\ op = "resolve"
    /\ logged = 0
    /\ events = <<>>

\* C6: a message on a topic that is not configured is dropped before
\* decode: no promise, no event and no error, whatever its payload.
C6_TopicFilter ==
    [][op' = "message" =>
          \A topic \in MessageTopics, data \in Payloads :
             (topic \notin Range(topics) /\ DeliverMessage(topic, data))
             => (~threw' /\ UNCHANGED <<pending, events, decoded, failed>>)]_vars

\* a started engine was handed a message that it did not give to decode
C6_Witness ==
    /\ IsStarted
    /\ op = "message"
    /\ ~threw
    /\ decoded = 0

\* C7: no message makes _onMessage or the callbacks of its promise raise
\* to the caller.
C7_NoErrorEscapes ==
    op \in {"message", "resolve"} => ~threw

\* a promise whose identity is another peer's and whose addresses parse
ValidEntry(p) ==
    /\ PeerIdFromKeys(p.publicKey).ok
    /\ PeerIdFromKeys(p.publicKey).digest # OwnPeerId.digest
    /\ Multiaddrs(p.addrs).ok

\* C8: a message on a configured topic that fails to decode yields no
\* promise and no event and leaves the started flag, the listeners, the
\* subscriptions and the timers as they are; a valid announcement that
\* comes after it is passed on and yields its event.
C8_MalformedIsolated ==
    [][/\ (IsStarted /\ op' = "message") =>
             \A topic \in MessageTopics, data \in Payloads :
                (topic \in Range(topics) /\ ~Decode(data).ok
                   /\ DeliverMessage(topic, data))
                => UNCHANGED <<pending, events, lifecycle>>
       /\ (IsStarted /\ failed # {} /\ op' = "message") =>
             \A topic \in MessageTopics, data \in Payloads :
                (ValidFromOther(topic, data) /\ DeliverMessage(topic, data))
                => /\ Len(pending') = Len(pending) + 1
                   /\ pending'[Len(pending')].msg = decoded + 1
       /\ (failed # {} /\ op' = "resolve") =>
             \A i \in 1..Len(pending) :
                (ValidEntry(pending[i]) /\ Resolve(i))
                => \E j \in 1..Len(events') :
                      events'[j].msg = pending[i].msg]_vars

\* an event of a message that came after one that failed to decode
C8_Witness ==
    \E i \in 1..Len(events) : \E f \in failed : f < events[i].msg

\* the event of a promise: the identity of its key, its addresses in
\* their order, no protocols
EventOf(p) ==
    [id |-> PeerIdFromKeys(p.publicKey),
     multiaddrs |-> [j \in 1..Len(p.addrs) |-> Multiaddr(p.addrs[j]).str],
     protocols |-> <<>>,
     msg |-> p.msg]

\* how many elements of `list` satisfy Test
Count(list, Test(_)) == Len(SelectSeq(list, Test))

C9_Step ==
    /\ (IsStarted /\ op' = "message") =>
          \A topic \in MessageTopics, data \in Payloads :
             (ValidFromOther(topic, data) /\ DeliverMessage(topic, data))
             => pending' = Append(pending, [publicKey |-> Decode(data).publicKey,
                                            addrs |-> Decode(data).addrs,
                                            msg |-> decoded + 1])
    /\ op' = "resolve" =>
          \A i \in 1..Len(pending) :
             (ValidEntry(pending[i]) /\ Resolve(i))
             => /\ Len(events') = Len(events) + 1
                /\ Count(events', LAMBDA e : e = EventOf(pending[i]))
                      = Count(events, LAMBDA e : e = EventOf(pending[i])) + 1

C9_State ==
    \A m \in 1..decoded :
        Count(pending, LAMBDA p : p.msg = m) + Count(events, LAMBDA e : e.msg = m)
           <= 1

\* C9: a valid announcement of another peer that a started engine is
\* handed on a configured topic starts one promise, which once it settles
\* dispatches one event with the identity of the key, the addresses in
\* their order and no protocols; no message has more than one promise or
\* event.
C9_OneEventPerAnnouncement ==
    /\ [][C9_Step]_vars
    /\ []C9_State

\* an engine with two topics dispatched two events for two announcements
\* of the same peer
C9_Witness ==
    /\ Len(topics) = 2
    /\ Len(events) = 2
    /\ events[1].msg # events[2].msg
    /\ events[1].id = events[2].id
    /\ events[1].multiaddrs = <<"/addr1", "/addr2">>
    /\ events[1].protocols = <<>>

\* C10: without listenOnly, afterStart of an engine that is not started
\* enters _broadcast once and, unless that raises, publishes on every topic
\* and is started; a tick of the interval timer comes only while the engine
\* is started and enters _broadcast once, publishing on every topic; the
\* timer of a started engine is active, and after stop no timer is.
C10_PeriodicSchedule ==
    [][/\ (op' = "afterStart" /\ intervalId = NoTimer /\ pubsub # NULL /\ ~listenOnly)
             => /\ broadcasts' = 1
                /\ ~threw' => /\ Len(PublishCalls(calls')) = Len(topics)
                              /\ IsStarted'
       /\ op' = "interval"
             => /\ IsStarted /\ IsStarted'
                /\ broadcasts' = 1
                /\ Len(PublishCalls(calls')) = Len(topics)
       /\ op' = "stop" => (~IsStarted' /\ intervals' = {})
       /\ IsStarted' => intervals' = {intervalId'}]_vars

\* a tick of the interval timer of a started engine
C10_Witness ==
    /\ IsStarted
    /\ op = "interval"
    /\ broadcasts = 1
    /\ Len(PublishCalls(calls)) = Len(topics)

\* the bound backoffOnSubscribe in the units of Backoff
BackoffBound == backoffOnSubscribe * RandomSteps

\* a notification that names a configured topic
Qualifies(subs) == subs \cap Range(topics) # {}

\* C11: without listenOnly and with broadcastOnSubscribe, a notification a
\* started engine receives sets one one-shot timer when it names a
\* configured topic and none when it names no such topic; the delay d of
\* every timer satisfies 0 <= d < backoffOnSubscribe; a timer is removed
\* only by firing, and when it fires it enters _broadcast once.
C11_OpportunisticBroadcast ==
    /\ [][/\ (IsStarted /\ ~listenOnly /\ broadcastOnSubscribe
                /\ op' = "subscription-change") =>
                \A subs \in SubscriptionChanges :
                   SubscriptionChange(subs) =>
                      Len(timeouts') = Len(timeouts)
                                          + (IF Qualifies(subs) THEN 1 ELSE 0)
          /\ op' = "timeout" => /\ Len(timeouts') = Len(timeouts) - 1
                                /\ broadcasts' = 1
          /\ op' # "timeout" => Len(timeouts') >= Len(timeouts)]_vars
    /\ [](\A i \in 1..Len(timeouts) :
             0 <= timeouts[i] /\ timeouts[i] < BackoffBound)

\* C12: with no pubsub attached afterStart raises, calls nothing, enters
\* _broadcast not once and leaves the engine Idle with no timer; beforeStop
\* raises too and changes nothing; no timer is left that would try again.
C12_MissingTransportFatal ==
    [][(pubsub = NULL /\ op' \in {"afterStart", "beforeStop"})
          => /\ threw'
             /\ calls' = <<>>
             /\ broadcasts' = 0
             /\ Idle'
             /\ intervals' = {} /\ timeouts' = <<>>
             /\ UNCHANGED lifecycle]_vars

\* afterStart raised twice in a row on an engine without pubsub
C12_Witness ==
    /\ pubsub = NULL
    /\ op = "afterStart"
    /\ again
    /\ threw
    /\ Idle

\* C13: while the identity has no public key every call that enters
\* _broadcast raises and publishes nothing; afterStart so raises to its
\* caller, and the engine has no interval timer and is not started.
C13_MissingKeyFatal ==
    publicKey = NoKey =>
       /\ broadcasts > 0 => (threw /\ PublishCalls(calls) = <<>>)
       /\ (op = "afterStart" /\ pubsub # NULL /\ ~listenOnly) => threw
       /\ intervals = {}
       /\ ~IsStarted

\* a one-shot timer fired on an engine without public key whose afterStart
\* had raised
C13_Witness ==
    /\ publicKey = NoKey
    /\ op = "timeout"
    /\ broadcasts = 1
    /\ threw
    /\ subscriptions # {}

\* subscribed to every configured topic
Subscribed == Range(topics) \subseteq subscriptions

\* Idle as isStarted() tells it: not started, subscribed to no configured
\* topic, no message handler, no interval timer
FullyIdle ==
    /\ ~IsStarted
    /\ subscriptions \cap Range(topics) = {}
    /\ ~Includes(msgListeners, OnMessageCallback)
    /\ intervals = {}

\* Started: started, subscribed to every configured topic, the message
\* handler registered, the interval timer active unless listenOnly
FullyStarted ==
    /\ IsStarted
    /\ Subscribed
    /\ Includes(msgListeners, OnMessageCallback)
    /\ ~listenOnly => intervals = {intervalId}

\* C14: after every call the engine is fully Idle or fully Started, and
\* isStarted() is true exactly when the engine is subscribed.
C14_NoIntermediateState ==
    /\ FullyIdle \/ FullyStarted
    /\ IsStarted <=> Subscribed

\* C15: beforeStop of a started engine calls unsubscribe for every
\* configured topic and leaves no subscription to one and no message
\* handler; stop right after it leaves the engine not started with no
\* interval timer; afterStart right after that returns without raising and
\* the engine is started, subscribed, with handler and interval timer.
C15_StopThenRestart ==
    [][/\ (IsStarted /\ op' = "beforeStop")
             => /\ \A t \in Range(topics) :
                      \E i \in 1..Len(calls') :
                         calls'[i] = Call("unsubscribe", t, <<>>)
                /\ subscriptions' \cap Range(topics) = {}
                /\ ~Includes(msgListeners', OnMessageCallback)
       /\ (IsStarted /\ op = "beforeStop" /\ op' = "stop")
             => (FullyIdle' /\ intervals' = {})
       /\ (FullyIdle /\ op = "stop" /\ op' = "afterStart"
              /\ pubsub # NULL /\ publicKey # NoKey /\ ~listenOnly)
             => (~threw' /\ FullyStarted')]_vars

\* an engine started for the second time: both afterStart calls
\* registered their subscription-change listener and neither raised
C15_Witness ==
    /\ op = "afterStart"
    /\ ~threw
    /\ FullyStarted
    /\ publicKey # NoKey
    /\ Len(subChangeListeners) = 2

\* C16: a message handed to _onMessage while the engine is not started is
\* dropped before the topic test and before decode, whatever its topic and
\* payload: nothing is given to decode, no error is raised, no promise is
\* started and no event is dispatched.
C16_LivenessCheckFirst ==
    [][(~IsStarted /\ op' = "message")
          => /\ ~threw'
             /\ decoded' = decoded
             /\ failed' = failed
             /\ pending' = pending
             /\ events' = events]_vars

\* a callback that came late: the engine had been started, took a message
\* and was stopped with the handler still registered
C16_Witness ==
    /\ ~IsStarted
    /\ ~listenOnly
    /\ op = "message"
    /\ decoded = 1
    /\ ~threw

\* C17: a started engine takes a valid announcement while promises of
\* earlier messages are in flight and starts its own promise; stop and
\* beforeStop leave the promises in flight; a promise settles in any state
\* of the engine, started or not, and whatever is still in flight, and a
\* valid one then dispatches its event; a message handed over while the
\* engine is not started starts no promise and yields no event.
C17_ReentrantPipeline ==
    [][/\ (IsStarted /\ pending # <<>> /\ op' = "message") =>
             \A topic \in MessageTopics, data \in Payloads :
                (ValidFromOther(topic, data) /\ DeliverMessage(topic, data))
                => /\ Len(pending') = Len(pending) + 1
                   /\ SubSeq(pending', 1, Len(pending)) = pending
       /\ op' \in {"stop", "beforeStop"} => pending' = pending
       /\ op' = "resolve" =>
             \A i \in 1..Len(pending) :
                (ValidEntry(pending[i]) /\ Resolve(i))
                => /\ \E j \in 1..Len(events') : events'[j] = EventOf(pending[i])
                   /\ Len(events') = Len(events) + 1
                   /\ Len(pending') = Len(pending) - 1
       /\ (~IsStarted /\ op' = "message") => (pending' = pending /\ events' = events)]_vars

\* the promise of the second message settled first and after the engine
\* was stopped: its event is dispatched while the first is in flight
C17_Witness ==
    /\ ~IsStarted
    /\ op = "resolve"
    /\ \E j \in 1..Len(events) : events[j].msg = 2
    /\ \E i \in 1..Len(pending) : pending[i].msg = 1

\* the topics of the publish calls of `list`, in their order
PublishedTopics(list) ==
    [i \in 1..Len(PublishCalls(list)) |-> PublishCalls(list)[i].arg]

\* C18: beforeStop and stop leave the pending one-shot timers as they are
\* while stop leaves no interval timer; a one-shot timer that fires while
\* the engine is not started enters _broadcast, which with pubsub and
\* public key in place publishes the announcement on every configured
\* topic.
C18_StopKeepsOpportunisticTimers ==
    [][/\ op' \in {"beforeStop", "stop"} => timeouts' = timeouts
       /\ op' = "stop" => (intervals' = {} /\ ~IsStarted')
       /\ (~IsStarted /\ op' = "timeout")
             => /\ broadcasts' = 1
                /\ Len(timeouts') = Len(timeouts) - 1
                /\ (publicKey # NoKey /\ pubsub # NULL)
                      => /\ ~threw'
                         /\ PublishedTopics(calls') = topics
                         /\ \A i \in 1..Len(calls') :
                               calls'[i].data = Encode(OwnPeer)]_vars

\* stop of a started engine returned and a one-shot timer is still pending
C18_Witness ==
    /\ op = "stop"
    /\ ~IsStarted
    /\ publicKey # NoKey
    /\ subscriptions # {}
    /\ intervals = {}
    /\ timeouts # <<>>

\* C19: with broadcastOnSubscribe, an afterStart that follows a complete
\* stop (beforeStop has removed the message handler, stop has returned)
\* leaves at most one subscription-change handler registered, each of
\* which sets its own timer on a notification that names a configured
\* topic.
C19_RestartKeepsOneHandler ==
    [][(broadcastOnSubscribe /\ op = "stop" /\ FullyIdle /\ op' = "afterStart")
          => Len(subChangeListeners') <= 1]_vars

\* C20: once beforeStop and stop have completed on an engine whose
\* identity has its public key, a notification that arrives next sets no
\* one-shot timer, so that publish calls come only from timers that were
\* pending.
C20_StoppedSchedulesNothing ==
    [][(FullyIdle /\ op = "stop" /\ publicKey # NoKey
           /\ op' = "subscription-change") => timeouts' = timeouts]_vars

====
